---- MODULE Spec2Model ----
(***************************************************************************)
(* A model of the blog application's document layer and post controller:   *)
(* the Post, Category and Comment schemas with their save/remove hooks and *)
(* the request handlers that read and write them.  Every `await` of a      *)
(* handler is a point where other requests may run, so a handler is one    *)
(* action per database round trip.  The browser's HTTP client (its local   *)
(* storage and its request and response interceptors) is modelled beside   *)
(* the server.                                                             *)
(*                                                                         *)
(* Strings are sequences of one-character strings.  A post's content is    *)
(* kept by its whitespace structure (does it start / end with whitespace,  *)
(* how many maximal non-whitespace runs it has): the only thing the        *)
(* read-time hook looks at.  An excerpt is kept as given, none, or derived  *)
(* from a content.  The tags, images and SEO fields are not modelled.      *)
(***************************************************************************)
EXTENDS Integers, Sequences, FiniteSets, TLC

VARIABLES
  posts,       \* the posts collection: post id -> document
  categories,  \* the ids of the stored categories
  comments,    \* the comments collection: comment id -> document
  reqs,        \* the request each connection is serving, and its response
  viewIncs,    \* view increments fired by getPost and not yet applied
  clock,       \* what Date.now() returns
  nextPost,    \* the next fresh post id
  nextComment, \* the next fresh comment id
  started,     \* requests started so far
  text,        \* slug pipeline: the title or name as submitted
  kind,        \* slug pipeline: "post" or "category"
  slugOut,     \* slug pipeline: what the save stored
  listing,     \* a list query: its arguments and what it returned
  categoryDocs,\* the categories collection: category id -> document
  client       \* the browser: local storage, requests in flight, outcomes

vars == <<posts, categories, comments, reqs, viewIncs, clock, nextPost,
          nextComment, started, text, kind, slugOut, listing, categoryDocs,
          client>>

storeVars == <<posts, categories, comments, reqs, viewIncs, clock, nextPost,
               nextComment, started>>

slugVars == <<text, kind, slugOut>>

sideVars == <<categoryDocs, client>>

pureVars == <<text, kind, slugOut, listing, categoryDocs, client>>

(***************************************************************************)
(* Bounds of the model.                                                    *)
(***************************************************************************)
MaxPosts == 2

MaxComments == 3

MaxClock == 1

MaxRequests == 3

MaxTextLen == 5

MaxPage == 3

MaxLimit == 10

MaxTotal == 25

(***************************************************************************)
(* Constants of the program.                                               *)
(***************************************************************************)
Null == -1

MinTitleLen == 5

MaxTitleLen == 200

MinNameLen == 2

MaxNameLen == 50

wordsPerMinute == 200

Slots == {1, 2}

Users == {"u1", "u2"}

CategoryIds == {1, 2}

PostIds == 1..MaxPosts

CommentIds == 1..MaxComments

(***************************************************************************)
(* Characters and the string functions the slug hooks use.                 *)
(***************************************************************************)
LowerLetters == {"a", "b"}

UpperLetters == {"B"}

Digits == {"7"}

Whitespace == {" "}

Punctuation == {"&", "-"}

\* The characters submitted text is made of.
Chars == {"a"} \cup UpperLetters \cup Digits \cup Whitespace \cup Punctuation

\* String.prototype.toLowerCase, one character.
LowerChar(c) == IF c = "B" THEN "b" ELSE c

toLowerCase(s) == [i \in 1..Len(s) |-> LowerChar(s[i])]

\* The class [a-zA-Z0-9\s] of the slug hooks' first replace.
IsKept(c) == c \in LowerLetters \cup UpperLetters \cup Digits \cup Whitespace

IsSpace(c) == c \in Whitespace

\* .replace(/[^a-zA-Z0-9\s]/g, '')
StripSpecial(s) == SelectSeq(s, IsKept)

\* .replace(/\s+/g, '-'): each maximal whitespace run becomes one hyphen.
RECURSIVE HyphenateFrom(_, _)
HyphenateFrom(s, i) ==
  IF i > Len(s) THEN <<>>
  ELSE IF IsSpace(s[i])
       THEN IF i > 1 /\ IsSpace(s[i - 1])
            THEN HyphenateFrom(s, i + 1)
            ELSE <<"-">> \o HyphenateFrom(s, i + 1)
       ELSE <<s[i]>> \o HyphenateFrom(s, i + 1)

Hyphenate(s) == HyphenateFrom(s, 1)

\* String.prototype.trim: leading and trailing whitespace removed.
RECURSIVE TrimLeft(_)
TrimLeft(s) == IF s # <<>> /\ IsSpace(Head(s)) THEN TrimLeft(Tail(s)) ELSE s

RECURSIVE TrimRight(_)
TrimRight(s) ==
  IF s # <<>> /\ IsSpace(s[Len(s)])
  THEN TrimRight(SubSeq(s, 1, Len(s) - 1))
  ELSE s

trim(s) == TrimRight(TrimLeft(s))

\* The chain of both slug hooks: lower-case, strip, hyphenate, trim.
SlugBase(s) == trim(Hyphenate(StripSpecial(toLowerCase(s))))

\* Schema setters and validators of Post.title and Category.name.
ValidTitle(t) == Len(trim(t)) >= MinTitleLen /\ Len(trim(t)) <= MaxTitleLen

ValidName(n) == Len(trim(n)) >= MinNameLen /\ Len(trim(n)) <= MaxNameLen

(***************************************************************************)
(* The slug pipeline on its own: a title or a name is submitted, the       *)
(* schema's trim setter and length validators run, then the slug hook.     *)
(***************************************************************************)
RECURSIVE StringsOfLen(_)
StringsOfLen(n) ==
  IF n = 0 THEN {<<>>}
  ELSE {Append(s, c) : s \in StringsOfLen(n - 1), c \in Chars}

Texts == UNION {StringsOfLen(n) : n \in 0..MaxTextLen}

\* Category.js pre('save'): the slug is the chain applied to the name.
CategorySlug(name) == SlugBase(name)

\* Post pre('save'): the chain applied to the title, then '-' + Date.now().
\* The timestamp is all digits, so the full string splits at its last
\* hyphen into exactly this pair.
PostSlug(title, now) == [base |-> SlugBase(title), ts |-> now]

NoSlug == [base |-> <<>>, ts |-> Null]

SlugPending == [state |-> "pending", stored |-> <<>>, slug |-> NoSlug]

SaveSlug ==
  /\ slugOut.state = "pending"
  /\ LET t == trim(text)
         ok == IF kind = "post" THEN ValidTitle(text) ELSE ValidName(text)
     IN slugOut' =
          IF ~ok THEN [state |-> "rejected", stored |-> <<>>, slug |-> NoSlug]
          ELSE [state |-> "saved", stored |-> t,
                slug |-> IF kind = "post" THEN PostSlug(t, clock)
                         ELSE [base |-> CategorySlug(t), ts |-> Null]]
  /\ UNCHANGED <<text, kind, listing>>
  /\ UNCHANGED sideVars
  /\ UNCHANGED storeVars

(***************************************************************************)
(* Post documents and the pre('save') hooks of the Post schema.            *)
(***************************************************************************)
Statuses == {"draft", "published", "archived"}

\* content.split(/\s+/).length: one piece per word, and one empty piece
\* more for whitespace at the start and for whitespace at the end.
SplitLength(c) ==
  IF c.words = 0 /\ ~c.lead /\ ~c.trail THEN 1
  ELSE c.words + (IF c.lead THEN 1 ELSE 0) + (IF c.trail THEN 1 ELSE 0)

\* Math.ceil(a / b) for a >= 0, b > 0.
Ceil(a, b) == (a + b - 1) \div b

Plain(n) == [lead |-> FALSE, words |-> n, trail |-> FALSE]

NoContent == Plain(0)

\* No excerpt (undefined or empty), an excerpt written by the author, and
\* the excerpt the hook derives from a content.
NoExcerpt == [by |-> "none", of |-> NoContent]

GivenExcerpt == [by |-> "author", of |-> NoContent]

AutoExcerpt(c) == [by |-> "hook", of |-> c]

NoDoc ==
  [title |-> <<>>, slug |-> NoSlug, content |-> NoContent, excerpt |-> NoExcerpt,
   status |-> "draft", publishedAt |-> Null, readTime |-> 0, category |-> 0,
   author |-> "none", allowComments |-> TRUE, views |-> 0, likes |-> <<>>, v |-> 0]

\* Hook 1: the slug, on a new document or a modified title.
SlugHook(doc, isNew, modified, now) ==
  IF "title" \in modified \/ isNew
  THEN [doc EXCEPT !.slug = PostSlug(doc.title, now)]
  ELSE doc

\* Hook 2: the excerpt, derived from modified content when there is none.
ExcerptHook(doc, modified) ==
  IF "content" \in modified /\ doc.excerpt = NoExcerpt
  THEN [doc EXCEPT !.excerpt = AutoExcerpt(doc.content)]
  ELSE doc

\* Hook 3 without its guards: the date is set on every save of a published post.
PublishedAtHookUnguarded(doc, modified, now) ==
  IF doc.status = "published" THEN [doc EXCEPT !.publishedAt = now] ELSE doc

\* Hook 3: the publication date, the first time the status becomes published.
PublishedAtHook(doc, modified, now) ==
  IF "status" \in modified /\ doc.status = "published" /\ doc.publishedAt = Null
  THEN [doc EXCEPT !.publishedAt = now]
  ELSE doc

\* Hook 4: the read time, on modified content.
ReadTimeHook(doc, modified) ==
  IF "content" \in modified
  THEN [doc EXCEPT !.readTime = Ceil(SplitLength(doc.content), wordsPerMinute)]
  ELSE doc

\* The hooks in the order the schema registers them.
PreSave(doc, isNew, modified, now) ==
  ReadTimeHook(PublishedAtHook(ExcerptHook(SlugHook(doc, isNew, modified, now),
                                           modified),
                               modified, now),
               modified)

\* Schema validation of a post document.
ValidPost(doc) ==
  /\ Len(doc.title) >= MinTitleLen
  /\ Len(doc.title) <= MaxTitleLen
  /\ doc.status \in Statuses

\* The unique index on slug.
SlugTaken(slug) == \E q \in DOMAIN posts : posts[q].slug = slug

\* likes.some(like => like.user == userId)
isLikedBy(likes, u) == \E i \in 1..Len(likes) : likes[i] = u

\* likes.filter(like => like.user != userId)
WithoutUser(likes, u) == SelectSeq(likes, LAMBDA x : x # u)

\* The in-memory part of the toggleLike method: remove the user's likes,
\* or push one.
toggleLikeArray(likes, u) ==
  IF isLikedBy(likes, u) THEN WithoutUser(likes, u) ELSE Append(likes, u)

\* The likeCount virtual.
likeCount(likes) == Len(likes)

(***************************************************************************)
(* Requests.  A connection serves one request at a time; its record keeps  *)
(* the handler's position, its local variables and, once it has answered,  *)
(* the response.                                                           *)
(***************************************************************************)
NoBody ==
  [has |-> {}, title |-> <<>>, content |-> NoContent, excerpt |-> NoExcerpt,
   category |-> 0, status |-> "draft", allowComments |-> TRUE]

Idle ==
  [op |-> "none", pc |-> "idle", id |-> 0, user |-> "none", role |-> "user",
   body |-> NoBody, snap |-> NoDoc, status |-> 0, msg |-> "none", data |-> <<>>]

Free(r) == reqs[r].pc \in {"idle", "done"} /\ started < MaxRequests

Begin(op, pc, id, u, role, body, snap) ==
  [op |-> op, pc |-> pc, id |-> id, user |-> u, role |-> role, body |-> body,
   snap |-> snap, status |-> 0, msg |-> "none", data |-> <<>>]

\* res.status(code).json({message, data}): the handler is finished and its
\* locals are gone.
Respond(req, code, msg, data) ==
  [req EXCEPT !.pc = "done", !.status = code, !.msg = msg, !.data = data,
              !.snap = NoDoc]

Remove(f, k) == [x \in DOMAIN f \ {k} |-> f[x]]

(***************************************************************************)
(* createPost: validation result, category lookup (await), Post.create     *)
(* (await), response.                                                      *)
(***************************************************************************)
CreatesInFlight ==
  Cardinality({r \in Slots : reqs[r].op = "createPost" /\ reqs[r].pc = "create"})

\* The lookup left out.
categoryUnchecked(k) == TRUE

\* await Category.findById(category)
categoryExists(k) == k \in categories

CreatePostCheck(r, u, body, valid) ==
  /\ Free(r)
  /\ nextPost + CreatesInFlight <= MaxPosts
  /\ started' = started + 1
  /\ LET q == Begin("createPost", "create", 0, u, "user", body, NoDoc)
     IN reqs' = [reqs EXCEPT ![r] =
          IF ~valid THEN Respond(q, 400, "Validation failed", <<>>)
          ELSE IF ~categoryExists(body.category)
               THEN Respond(q, 400, "Invalid category selected", <<>>)
               ELSE q]
  /\ UNCHANGED <<posts, categories, comments, viewIncs, clock, nextPost, nextComment>>
  /\ UNCHANGED pureVars

\* new Post({...}) as the handler fills it in: the title through the trim
\* setter, the status defaulted to draft.
NewPost(body, u) ==
  [NoDoc EXCEPT !.title = trim(body.title),
                !.content = body.content,
                !.excerpt = IF "excerpt" \in body.has THEN body.excerpt ELSE NoExcerpt,
                !.category = body.category,
                !.status = IF "status" \in body.has THEN body.status ELSE "draft",
                !.author = u,
                !.allowComments = IF "allowComments" \in body.has
                                  THEN body.allowComments ELSE TRUE]

CreatePostSave(r) ==
  /\ reqs[r].op = "createPost"
  /\ reqs[r].pc = "create"
  /\ LET doc0 == NewPost(reqs[r].body, reqs[r].user)
         doc == PreSave(doc0, TRUE, {"title", "content", "category", "status", "author"},
                        clock)
     IN IF ~ValidPost(doc0) \/ SlugTaken(doc.slug)
        THEN /\ reqs' = [reqs EXCEPT ![r] =
                   Respond(@, 500, "Server error while creating post", <<>>)]
             /\ UNCHANGED <<posts, nextPost>>
        ELSE /\ posts' = posts @@ (nextPost :> doc)
             /\ nextPost' = nextPost + 1
             /\ reqs' = [reqs EXCEPT ![r] =
                   Respond(@, 201, "Post created successfully", <<nextPost>>)]
  /\ UNCHANGED <<categories, comments, viewIncs, clock, nextComment, started>>
  /\ UNCHANGED pureVars

(***************************************************************************)
(* updatePost: validation result, findById (await), ownership check,       *)
(* category lookup when the category changes (await), findByIdAndUpdate    *)
(* (await), response.                                                      *)
(***************************************************************************)
\* The ownership check with the two conditions joined by "or".
NotAuthorizedEither(doc, u, role) == doc.author # u \/ role # "admin"

\* post.author.toString() !== req.user.id && req.user.role !== 'admin'
NotAuthorized(doc, u, role) == doc.author # u /\ role # "admin"

UpdatePostFind(r, p, u, role, body, valid) ==
  /\ Free(r)
  /\ started' = started + 1
  /\ LET q == Begin("updatePost", "apply", p, u, role, body, NoDoc)
     IN reqs' = [reqs EXCEPT ![r] =
          IF ~valid THEN Respond(q, 400, "Validation failed", <<>>)
          ELSE IF p \notin DOMAIN posts THEN Respond(q, 404, "Post not found", <<>>)
          ELSE IF NotAuthorized(posts[p], u, role)
               THEN Respond(q, 403, "Not authorized to update this post", <<>>)
          ELSE IF "category" \in body.has /\ body.category # posts[p].category
               THEN [q EXCEPT !.pc = "category"]
               ELSE q]
  /\ UNCHANGED <<posts, categories, comments, viewIncs, clock, nextPost, nextComment>>
  /\ UNCHANGED pureVars

UpdatePostCategory(r) ==
  /\ reqs[r].op = "updatePost"
  /\ reqs[r].pc = "category"
  /\ reqs' = [reqs EXCEPT ![r] =
       IF ~categoryExists(reqs[r].body.category)
       THEN Respond(@, 400, "Invalid category selected", <<>>)
       ELSE [@ EXCEPT !.pc = "apply"]]
  /\ UNCHANGED <<posts, categories, comments, viewIncs, clock, nextPost, nextComment,
                 started>>
  /\ UNCHANGED pureVars

\* The update document built without the guards: every field of the body,
\* given or not.
ApplyUpdateAll(doc, body) ==
  [doc EXCEPT
     !.title = trim(body.title),
     !.content = body.content,
     !.excerpt = body.excerpt,
     !.category = body.category,
     !.status = body.status,
     !.allowComments = body.allowComments]

\* The update document of findByIdAndUpdate applied to a stored post: $set
\* of the fields present in the body, and nothing else.  No save hook runs.
ApplyUpdate(doc, body) ==
  [doc EXCEPT
     !.title = IF "title" \in body.has THEN trim(body.title) ELSE @,
     !.content = IF "content" \in body.has THEN body.content ELSE @,
     !.excerpt = IF "excerpt" \in body.has THEN body.excerpt ELSE @,
     !.category = IF "category" \in body.has THEN body.category ELSE @,
     !.status = IF "status" \in body.has THEN body.status ELSE @,
     !.allowComments = IF "allowComments" \in body.has THEN body.allowComments ELSE @]

\* runValidators: the validators of the paths being set.
ValidUpdate(body) ==
  /\ "title" \in body.has => ValidTitle(body.title)
  /\ "status" \in body.has => body.status \in Statuses

UpdatePostApply(r) ==
  /\ reqs[r].op = "updatePost"
  /\ reqs[r].pc = "apply"
  /\ LET p == reqs[r].id
         body == reqs[r].body
     IN IF ~ValidUpdate(body)
        THEN /\ reqs' = [reqs EXCEPT ![r] =
                   Respond(@, 500, "Server error while updating post", <<>>)]
             /\ UNCHANGED posts
        ELSE IF p \notin DOMAIN posts
        THEN /\ reqs' = [reqs EXCEPT ![r] =
                   Respond(@, 200, "Post updated successfully", <<Null>>)]
             /\ UNCHANGED posts
        ELSE /\ posts' = [posts EXCEPT ![p] = ApplyUpdate(@, body)]
             /\ reqs' = [reqs EXCEPT ![r] =
                   Respond(@, 200, "Post updated successfully", <<p>>)]
  /\ UNCHANGED <<categories, comments, viewIncs, clock, nextPost, nextComment, started>>
  /\ UNCHANGED pureVars

(***************************************************************************)
(* deletePost: findById (await), ownership check, post.remove() - the      *)
(* pre('remove') hook's Comment.deleteMany (await), then the deletion of   *)
(* the post document itself (await) - and the response.                    *)
(***************************************************************************)
DeletePostFind(r, p, u, role) ==
  /\ Free(r)
  /\ started' = started + 1
  /\ LET q == Begin("deletePost", "cascade", p, u, role, NoBody, NoDoc)
     IN reqs' = [reqs EXCEPT ![r] =
          IF p \notin DOMAIN posts THEN Respond(q, 404, "Post not found", <<>>)
          ELSE IF NotAuthorized(posts[p], u, role)
               THEN Respond(q, 403, "Not authorized to delete this post", <<>>)
               ELSE q]
  /\ UNCHANGED <<posts, categories, comments, viewIncs, clock, nextPost, nextComment>>
  /\ UNCHANGED pureVars

\* Comment.deleteMany({ post: this._id })
WithoutPost(cs, p) == [c \in {x \in DOMAIN cs : cs[x].post # p} |-> cs[c]]

DeletePostCascade(r) ==
  /\ reqs[r].op = "deletePost"
  /\ reqs[r].pc = "cascade"
  /\ comments' = WithoutPost(comments, reqs[r].id)
  /\ reqs' = [reqs EXCEPT ![r].pc = "remove"]
  /\ UNCHANGED <<posts, categories, viewIncs, clock, nextPost, nextComment, started>>
  /\ UNCHANGED pureVars

DeletePostRemove(r) ==
  /\ reqs[r].op = "deletePost"
  /\ reqs[r].pc = "remove"
  /\ posts' = Remove(posts, reqs[r].id)
  /\ reqs' = [reqs EXCEPT ![r] = Respond(@, 200, "Post deleted successfully", <<>>)]
  /\ UNCHANGED <<categories, comments, viewIncs, clock, nextPost, nextComment, started>>
  /\ UNCHANGED pureVars

(***************************************************************************)
(* toggleLike: findById (await), the toggleLike method on the loaded       *)
(* document, save() (await), response.  save() sends only what changed:    *)
(* a pushed like as an atomic $push, a reassigned likes array as a $set    *)
(* of the whole array guarded by the version the document was loaded       *)
(* with; both increment the version.                                       *)
(***************************************************************************)
ToggleLikeFind(r, p, u) ==
  /\ Free(r)
  /\ started' = started + 1
  /\ reqs' = [reqs EXCEPT ![r] =
       IF p \notin DOMAIN posts
       THEN Respond(Begin("toggleLike", "save", p, u, "user", NoBody, NoDoc),
                    404, "Post not found", <<>>)
       ELSE Begin("toggleLike", "save", p, u, "user", NoBody, posts[p])]
  /\ UNCHANGED <<posts, categories, comments, viewIncs, clock, nextPost, nextComment>>
  /\ UNCHANGED pureVars

\* The in-memory document written back whole.
SaveWhole(stored, snap, doc, u) == [doc EXCEPT !.v = snap.v + 1]

\* What save() writes for a document loaded as `snap` and changed in memory
\* to `doc`: the scalar paths that differ are set, the likes go by $push
\* or by $set, the version is incremented.
SaveLikes(stored, snap, doc, u) ==
  [stored EXCEPT
     !.slug = IF doc.slug # snap.slug THEN doc.slug ELSE @,
     !.excerpt = IF doc.excerpt # snap.excerpt THEN doc.excerpt ELSE @,
     !.publishedAt = IF doc.publishedAt # snap.publishedAt THEN doc.publishedAt ELSE @,
     !.readTime = IF doc.readTime # snap.readTime THEN doc.readTime ELSE @,
     !.likes = IF isLikedBy(snap.likes, u) THEN doc.likes ELSE Append(@, u),
     !.v = @ + 1]

ToggleLikeSave(r) ==
  /\ reqs[r].op = "toggleLike"
  /\ reqs[r].pc = "save"
  /\ LET p == reqs[r].id
         u == reqs[r].user
         snap == reqs[r].snap
         wasLiked == isLikedBy(snap.likes, u)
         doc == PreSave([snap EXCEPT !.likes = toggleLikeArray(snap.likes, u)],
                        FALSE, {"likes"}, clock)
     IN IF p \notin DOMAIN posts \/ (wasLiked /\ posts[p].v # snap.v)
        THEN /\ reqs' = [reqs EXCEPT ![r] =
                   Respond(@, 500, "Server error while toggling like", <<>>)]
             /\ UNCHANGED posts
        ELSE /\ posts' = [posts EXCEPT ![p] = SaveLikes(@, snap, doc, u)]
             /\ reqs' = [reqs EXCEPT ![r] =
                   Respond(@, 200, IF wasLiked THEN "Post unliked" ELSE "Post liked",
                           <<~wasLiked, likeCount(doc.likes)>>)]
  /\ UNCHANGED <<categories, comments, viewIncs, clock, nextPost, nextComment, started>>
  /\ UNCHANGED pureVars

(***************************************************************************)
(* getPost: findOne (await), the view increment fired without await, the   *)
(* response.  The increment is applied, or fails, later on its own.        *)
(***************************************************************************)
GetPost(r, p) ==
  /\ Free(r)
  /\ started' = started + 1
  /\ LET q == Begin("getPost", "find", p, "none", "user", NoBody, NoDoc)
     IN IF p \notin DOMAIN posts
        THEN /\ reqs' = [reqs EXCEPT ![r] = Respond(q, 404, "Post not found", <<>>)]
             /\ UNCHANGED viewIncs
        ELSE /\ reqs' = [reqs EXCEPT ![r] = Respond(q, 200, "none", <<p>>)]
             /\ viewIncs' = [viewIncs EXCEPT ![p] = @ + 1]
  /\ UNCHANGED <<posts, categories, comments, clock, nextPost, nextComment>>
  /\ UNCHANGED pureVars

\* Post.findByIdAndUpdate(post._id, { $inc: { views: 1 } }) reaches the store.
ViewIncrement(p) ==
  /\ viewIncs[p] > 0
  /\ viewIncs' = [viewIncs EXCEPT ![p] = @ - 1]
  /\ posts' = IF p \in DOMAIN posts
              THEN [posts EXCEPT ![p].views = @ + 1]
              ELSE posts
  /\ UNCHANGED <<categories, comments, reqs, clock, nextPost, nextComment, started>>
  /\ UNCHANGED pureVars

\* The failed update reported to a reader of the post, as an awaited update
\* would be.
ViewIncrementFailsObserved(p) ==
  /\ viewIncs[p] > 0
  /\ viewIncs' = [viewIncs EXCEPT ![p] = @ - 1]
  /\ \E r \in Slots :
       /\ reqs[r].op = "getPost" /\ reqs[r].id = p /\ reqs[r].status = 200
       /\ reqs' = [reqs EXCEPT ![r] =
            Respond(@, 500, "Server error while fetching post", <<>>)]
  /\ UNCHANGED <<posts, categories, comments, clock, nextPost, nextComment, started>>
  /\ UNCHANGED pureVars

\* The same update fails (the store is unreachable): nobody observes it.
ViewIncrementFails(p) ==
  /\ viewIncs[p] > 0
  /\ viewIncs' = [viewIncs EXCEPT ![p] = @ - 1]
  /\ UNCHANGED <<posts, categories, comments, reqs, clock, nextPost, nextComment,
                 started>>
  /\ UNCHANGED pureVars

(***************************************************************************)
(* getAllPosts and searchPosts: the pagination block of the response.      *)
(* page and limit arrive in req.query as decimal strings, or are absent    *)
(* and default to the numbers 1 and 10; the arithmetic and the comparisons *)
(* convert the strings to numbers.  total is what countDocuments returned. *)
(***************************************************************************)
DefaultPage == 1

DefaultLimit == 10

DecimalDigits == <<"0", "1", "2", "3", "4", "5", "6", "7", "8", "9">>

\* The query string of a number, as a client writes it.
RECURSIVE Decimal(_)
Decimal(n) ==
  IF n < 10 THEN <<DecimalDigits[n + 1]>>
  ELSE Decimal(n \div 10) \o <<DecimalDigits[(n % 10) + 1]>>

DigitValue(ch) == CHOOSE d \in 0..9 : DecimalDigits[d + 1] = ch

\* ToNumber of a string of decimal digits, as `<`, `>`, `/`, `*` and
\* parseInt apply it.
RECURSIVE ToNumber(_)
ToNumber(s) ==
  IF s = <<>> THEN 0
  ELSE 10 * ToNumber(SubSeq(s, 1, Len(s) - 1)) + DigitValue(s[Len(s)])

\* req.query of a request for page `page` with `limit` posts a page.
ListQuery(has, page, limit) ==
  [has |-> has, page |-> Decimal(page), limit |-> Decimal(limit)]

\* Math.floor in place of Math.ceil.
totalPagesFloor(total, limit) == total \div limit

\* Math.ceil(total / limit)
totalPages(total, limit) == Ceil(total, limit)

Pagination(query, total) ==
  LET page == IF "page" \in query.has THEN ToNumber(query.page) ELSE DefaultPage
      limit == IF "limit" \in query.has THEN ToNumber(query.limit) ELSE DefaultLimit
  IN [currentPage |-> page,
      totalPages |-> totalPages(total, limit),
      totalPosts |-> total,
      hasNextPage |-> page < totalPages(total, limit),
      hasPrevPage |-> page > 1]

ListOps == {"getAllPosts", "searchPosts"}

\* The response of a list request whose count has returned.
Paginate ==
  /\ listing.op \in ListOps
  /\ listing.state = "pending"
  /\ listing' = [listing EXCEPT
       !.state = "done",
       !.out = Pagination(ListQuery(listing.args.has, listing.args.page,
                                    listing.args.limit),
                          listing.args.total)]
  /\ UNCHANGED storeVars
  /\ UNCHANGED slugVars
  /\ UNCHANGED sideVars

(***************************************************************************)
(* Comments.  A comment is posted on an existing post, as a top-level      *)
(* comment or as a reply to a comment of that post.                        *)
(***************************************************************************)
NoParent == 0

\* A comment as the schema stores it: approved unless moderated, stamped
\* with its creation time.
NewComment(p, parent, u, now) ==
  [post |-> p, parent |-> parent, author |-> u, isApproved |-> TRUE,
   createdAt |-> now, content |-> Plain(1), isEdited |-> FALSE, editedAt |-> Null,
   likes |-> <<>>, isReported |-> FALSE, reportCount |-> 0, v |-> 0]

\* The pre('save') hook run for every save, whatever was modified.
EditHookAlways(doc, snap, isNew, now) == [doc EXCEPT !.isEdited = TRUE, !.editedAt = now]

\* commentSchema.pre('save'): a document loaded as `snap` and changed in
\* memory to `doc` is marked edited if its content was modified and it is
\* not new.
EditHook(doc, snap, isNew, now) ==
  IF doc.content # snap.content /\ ~isNew
  THEN [doc EXCEPT !.isEdited = TRUE, !.editedAt = now]
  ELSE doc

CreateComment(p, parent, u) ==
  /\ started < MaxRequests
  /\ nextComment <= MaxComments
  /\ p \in DOMAIN posts
  /\ parent # NoParent => parent \in DOMAIN comments /\ comments[parent].post = p
  /\ started' = started + 1
  /\ comments' = comments @@
       (nextComment :> EditHook(NewComment(p, parent, u, clock),
                                NewComment(p, parent, u, clock), TRUE, clock))
  /\ nextComment' = nextComment + 1
  /\ UNCHANGED <<posts, categories, reqs, viewIncs, clock, nextPost>>
  /\ UNCHANGED pureVars

(***************************************************************************)
(* comment.remove(): the pre('remove') hook deletes the comments whose     *)
(* parentComment is this comment (await), then the comment document itself *)
(* is deleted (await).                                                     *)
(***************************************************************************)
\* The cascade with the filter of the Post hook: { post: this.post }.
WithoutThread(cs, c) ==
  [d \in {x \in DOMAIN cs : cs[x].post # cs[c].post \/ x = c} |-> cs[d]]

\* Comment.deleteMany({ parentComment: this._id })
WithoutReplies(cs, c) == [d \in {x \in DOMAIN cs : cs[x].parent # c} |-> cs[d]]

RemoveCommentCascade(r, c) ==
  /\ Free(r)
  /\ c \in DOMAIN comments
  /\ started' = started + 1
  /\ reqs' = [reqs EXCEPT ![r] =
       Begin("removeComment", "remove", c, "none", "user", NoBody, NoDoc)]
  /\ comments' = WithoutReplies(comments, c)
  /\ UNCHANGED <<posts, categories, viewIncs, clock, nextPost, nextComment>>
  /\ UNCHANGED pureVars

RemoveCommentDelete(r) ==
  /\ reqs[r].op = "removeComment"
  /\ reqs[r].pc = "remove"
  /\ comments' = Remove(comments, reqs[r].id)
  /\ reqs' = [reqs EXCEPT ![r] = [@ EXCEPT !.pc = "done", !.status = 200]]
  /\ UNCHANGED <<posts, categories, viewIncs, clock, nextPost, nextComment, started>>
  /\ UNCHANGED pureVars

(***************************************************************************)
(* Moderation and the list queries of the Comment model.  A query is one   *)
(* find; what it returned is kept in `listing`.  Comments with the same    *)
(* createdAt come in either order.                                         *)
(***************************************************************************)
\* approve() / reject(): isApproved is set and the document saved.
Moderate(c, approved) ==
  /\ c \in DOMAIN comments
  /\ comments[c].isApproved # approved
  /\ comments' = [comments EXCEPT ![c].isApproved = approved]
  /\ UNCHANGED <<posts, categories, reqs, viewIncs, clock, nextPost, nextComment,
                 started>>
  /\ UNCHANGED pureVars

(***************************************************************************)
(* The instance methods of a comment and the edit of its content.  Each    *)
(* works on a document loaded earlier (await) and ends in save() (await):  *)
(* save() writes the paths modified in memory, the likes by $push or, when *)
(* the array was replaced, by a $set that requires the loaded version.     *)
(***************************************************************************)
CommentOps == {"report", "toggleLikeComment", "editComment"}

CommentFind(r, op, c, u, body) ==
  /\ Free(r)
  /\ op \in CommentOps
  /\ started' = started + 1
  /\ reqs' = [reqs EXCEPT ![r] =
       IF c \notin DOMAIN comments
       THEN Respond(Begin(op, "save", c, u, "user", body, NoDoc),
                    404, "Comment not found", <<>>)
       ELSE Begin(op, "save", c, u, "user", body, comments[c])]
  /\ UNCHANGED <<posts, categories, comments, viewIncs, clock, nextPost, nextComment>>
  /\ UNCHANGED pureVars

\* report(): this.reportCount += 1; this.isReported = true
Report(snap) == [snap EXCEPT !.reportCount = @ + 1, !.isReported = TRUE]

\* The document in memory when the method calls save().
CommentInMemory(op, snap, u, body) ==
  CASE op = "report" -> Report(snap)
    [] op = "toggleLikeComment" -> [snap EXCEPT !.likes = toggleLikeArray(@, u)]
    [] op = "editComment" -> [snap EXCEPT !.content = body.content]

\* save() writing the likes of the document in memory over the stored ones.
CommentLikesWhole(stored, snap, doc, u) == doc.likes

\* The likes after save(): an added like is pushed onto the stored array,
\* a replaced array is set; an untouched one is not written.
CommentLikes(stored, snap, doc, u) ==
  IF doc.likes = snap.likes THEN stored.likes
  ELSE IF isLikedBy(snap.likes, u) THEN doc.likes ELSE Append(stored.likes, u)

\* What save() writes: the modified paths, and the version when the likes
\* were modified.
CommentWrite(stored, snap, doc, u) ==
  [stored EXCEPT
     !.content = IF doc.content # snap.content THEN doc.content ELSE @,
     !.isEdited = IF doc.isEdited # snap.isEdited THEN doc.isEdited ELSE @,
     !.editedAt = IF doc.editedAt # snap.editedAt THEN doc.editedAt ELSE @,
     !.isReported = IF doc.isReported # snap.isReported THEN doc.isReported ELSE @,
     !.reportCount = IF doc.reportCount # snap.reportCount THEN doc.reportCount ELSE @,
     !.likes = CommentLikes(stored, snap, doc, u),
     !.v = IF doc.likes # snap.likes THEN @ + 1 ELSE @]

CommentSave(r) ==
  /\ reqs[r].op \in CommentOps
  /\ reqs[r].pc = "save"
  /\ LET c == reqs[r].id
         u == reqs[r].user
         snap == reqs[r].snap
     IN IF c \notin DOMAIN comments
        THEN /\ reqs' = [reqs EXCEPT ![r] = Respond(@, 500, "Server error", <<>>)]
             /\ UNCHANGED comments
        ELSE LET doc == EditHook(CommentInMemory(reqs[r].op, snap, u, reqs[r].body),
                                 snap, FALSE, clock)
                 replaced == doc.likes # snap.likes /\ isLikedBy(snap.likes, u)
             IN IF replaced /\ comments[c].v # snap.v
                THEN /\ reqs' = [reqs EXCEPT ![r] =
                           Respond(@, 500, "Server error", <<>>)]
                     /\ UNCHANGED comments
                ELSE /\ comments' = [comments EXCEPT ![c] = CommentWrite(@, snap, doc, u)]
                     /\ reqs' = [reqs EXCEPT ![r] = Respond(@, 200, "none", <<c>>)]
  /\ UNCHANGED <<posts, categories, viewIncs, clock, nextPost, nextComment, started>>
  /\ UNCHANGED pureVars

\* The sequences that list the comments of S once each, sorted by createdAt:
\* ascending for order 1, descending for order -1.
Orderings(S, order) ==
  {s \in [1..Cardinality(S) -> S] :
     /\ \A i, j \in 1..Cardinality(S) : i # j => s[i] # s[j]
     /\ \A i, j \in 1..Cardinality(S) :
          i < j => order * comments[s[i]].createdAt <= order * comments[s[j]].createdAt}

\* .skip(skip).limit(limit) of a result.
Slice(s, skip, limit) ==
  SubSeq(s, skip + 1, IF skip + limit < Len(s) THEN skip + limit ELSE Len(s))

\* The query of findByPost without the isApproved condition.
ByPostQueryUnmoderated(p, includeReplies) ==
  {c \in DOMAIN comments :
     /\ comments[c].post = p
     /\ includeReplies \/ comments[c].parent = NoParent}

\* The query object of findByPost: { post, isApproved: true } and, unless
\* replies are included, parentComment: null.
ByPostQuery(p, includeReplies) ==
  {c \in DOMAIN comments :
     /\ comments[c].post = p
     /\ comments[c].isApproved
     /\ includeReplies \/ comments[c].parent = NoParent}

FindByPost(p, page, limit, order, includeReplies) ==
  /\ started < MaxRequests
  /\ started' = started + 1
  /\ \E s \in Orderings(ByPostQuery(p, includeReplies), order) :
       listing' = [op |-> "findByPost", state |-> "done",
                   args |-> [post |-> p, page |-> page, limit |-> limit,
                             order |-> order, includeReplies |-> includeReplies],
                   out |-> Slice(s, (page - 1) * limit, limit)]
  /\ UNCHANGED <<posts, categories, comments, reqs, viewIncs, clock, nextPost,
                 nextComment>>
  /\ UNCHANGED slugVars
  /\ UNCHANGED sideVars

\* findReplies sorting by { createdAt: -1 }.
RepliesNewestFirst(c) ==
  Orderings({d \in DOMAIN comments : comments[d].parent = c /\ comments[d].isApproved},
            -1)

\* find({ parentComment: commentId, isApproved: true }).sort({ createdAt: 1 })
Replies(c) ==
  Orderings({d \in DOMAIN comments : comments[d].parent = c /\ comments[d].isApproved},
            1)

FindReplies(c) ==
  /\ started < MaxRequests
  /\ started' = started + 1
  /\ \E s \in Replies(c) :
       listing' = [op |-> "findReplies", state |-> "done",
                   args |-> [comment |-> c], out |-> s]
  /\ UNCHANGED <<posts, categories, comments, reqs, viewIncs, clock, nextPost,
                 nextComment>>
  /\ UNCHANGED slugVars
  /\ UNCHANGED sideVars

(***************************************************************************)
(* category.remove(): the pre('remove') hook counts the category's posts   *)
(* that are not archived (await) and fails with statusCode 400 when there  *)
(* are any; otherwise the category document is deleted (await).  In the    *)
(* request record, status 400 is the hook's error and 200 a remove() that  *)
(* resolved.                                                               *)
(***************************************************************************)
\* The count with the wrong filter: { status: 'published' }.
PublishedPostCount(c) ==
  Cardinality({p \in DOMAIN posts : posts[p].category = c /\ posts[p].status = "published"})

\* Post.countDocuments({ category: this._id, status: { $ne: 'archived' } })
ActivePostCount(c) ==
  Cardinality({p \in DOMAIN posts : posts[p].category = c /\ posts[p].status # "archived"})

ActivePostsMessage ==
  "Cannot delete category that has active posts. Please move or delete the posts first."

RemoveCategoryCount(r, c) ==
  /\ Free(r)
  /\ c \in categories
  /\ started' = started + 1
  /\ LET q == Begin("removeCategory", "remove", c, "none", "admin", NoBody, NoDoc)
     IN reqs' = [reqs EXCEPT ![r] =
          IF ActivePostCount(c) > 0 THEN Respond(q, 400, ActivePostsMessage, <<>>) ELSE q]
  /\ UNCHANGED <<posts, categories, comments, viewIncs, clock, nextPost, nextComment>>
  /\ UNCHANGED pureVars

RemoveCategoryDelete(r) ==
  /\ reqs[r].op = "removeCategory"
  /\ reqs[r].pc = "remove"
  /\ categories' = categories \ {reqs[r].id}
  /\ reqs' = [reqs EXCEPT ![r] = Respond(@, 200, "none", <<>>)]
  /\ UNCHANGED <<posts, comments, viewIncs, clock, nextPost, nextComment, started>>
  /\ UNCHANGED pureVars

\* Time passes.
Tick ==
  /\ clock < MaxClock
  /\ clock' = clock + 1
  /\ UNCHANGED <<posts, categories, comments, reqs, viewIncs, nextPost, nextComment,
                 started>>
  /\ UNCHANGED pureVars

(***************************************************************************)
(* Inputs.                                                                 *)
(***************************************************************************)
TitleA == <<"B", "a", " ", "a", "7">>

TitleB == <<"&", " ", "a", "B", "7">>

TitleSamples == {TitleA, TitleB}

CreateBody(t, c, k, st) ==
  [has |-> {"title", "content", "category"} \cup (IF st = "" THEN {} ELSE {"status"}),
   title |-> t, content |-> c, category |-> k,
   status |-> IF st = "" THEN "draft" ELSE st]

TitleUpdate(t) == [NoBody EXCEPT !.has = {"title"}, !.title = t]

ContentUpdate(c) == [NoBody EXCEPT !.has = {"content"}, !.content = c]

StatusUpdate(st) == [NoBody EXCEPT !.has = {"status"}, !.status = st]

CategoryUpdate(k) == [NoBody EXCEPT !.has = {"category"}, !.category = k]

\* The fields of a post that the handlers of this model take from req.body.
BodyFields == {"title", "content", "excerpt", "category", "status", "allowComments"}

\* An updatePost body that gives the fields `has`, each with a new value.
UpdateBody(has) ==
  [has |-> has,
   title |-> IF "title" \in has THEN TitleB ELSE NoBody.title,
   content |-> IF "content" \in has THEN Plain(401) ELSE NoBody.content,
   excerpt |-> IF "excerpt" \in has THEN GivenExcerpt ELSE NoBody.excerpt,
   category |-> IF "category" \in has THEN 2 ELSE NoBody.category,
   status |-> IF "status" \in has THEN "archived" ELSE NoBody.status,
   allowComments |-> IF "allowComments" \in has THEN FALSE ELSE NoBody.allowComments]

\* Bodies in which every field is given in one and absent in another.
EditSamples ==
  {{}, {"title", "allowComments"}, {"content", "excerpt"}, {"category", "status"},
   BodyFields}

\* Five characters that the trim setter leaves two of.
PaddedTitle == <<"a", "7", " ", " ", " ">>

\* validationResult(req).isEmpty(): the verdict of the request validators.
ValidationResults == BOOLEAN

\* A well-formed category id that no category was ever stored under.
UnknownCategory == 3

RequestCategories == CategoryIds \cup {UnknownCategory}

(***************************************************************************)
(* Category documents.  A category has a unique trimmed name, the slug its *)
(* save hook derives from the name, an isActive flag and a sortOrder.      *)
(***************************************************************************)
CategoryDoc(name, active, order) ==
  [name |-> trim(name), slug |-> CategorySlug(trim(name)), isActive |-> active,
   sortOrder |-> order]

\* The names of the categories the database is initialised with.
SeedName(k) == IF k = 1 THEN <<"B", "a", "7">> ELSE <<"a", "B", "a">>

\* The categories inserted when the database is initialised.
SeedCategories == [k \in CategoryIds |-> CategoryDoc(SeedName(k), TRUE, k)]

\* The outcome of saving a new category: the validators run, then the slug
\* hook, then the insert, which the unique indexes on name and on slug
\* refuse with a duplicate-key error.
SaveOutcome(name) ==
  IF ~ValidName(name) THEN "rejected"
  ELSE IF \E j \in categories :
            \/ categoryDocs[j].name = CategoryDoc(name, TRUE, 0).name
            \/ categoryDocs[j].slug = CategoryDoc(name, TRUE, 0).slug
       THEN "duplicate"
       ELSE "saved"

\* new Category({ name, sortOrder }).save()
SaveCategory(name, order) ==
  /\ categories # CategoryIds
  /\ LET k == CHOOSE x \in CategoryIds \ categories :
                \A y \in CategoryIds \ categories : x <= y
     IN /\ listing' = [op |-> "saveCategory", state |-> SaveOutcome(name),
                       args |-> [name |-> name, sortOrder |-> order], out |-> <<k>>]
        /\ IF SaveOutcome(name) = "saved"
           THEN /\ categories' = categories \cup {k}
                /\ categoryDocs' = [categoryDocs EXCEPT
                                      ![k] = CategoryDoc(name, TRUE, order)]
           ELSE UNCHANGED <<categories, categoryDocs>>
  /\ UNCHANGED <<posts, comments, reqs, viewIncs, clock, nextPost, nextComment, started>>
  /\ UNCHANGED <<text, kind, slugOut, client>>

\* The code unit of a character: strings compare by code units.
CharCode(c) ==
  CASE c = " " -> 32 [] c = "&" -> 38 [] c = "-" -> 45 [] c = "7" -> 55
    [] c = "B" -> 66 [] c = "a" -> 97 [] c = "b" -> 98

RECURSIVE StringLess(_, _)
StringLess(s, t) ==
  IF t = <<>> THEN FALSE
  ELSE IF s = <<>> THEN TRUE
  ELSE IF Head(s) = Head(t) THEN StringLess(Tail(s), Tail(t))
  ELSE CharCode(Head(s)) < CharCode(Head(t))

\* $match: { isActive: true }
ActiveCategories == {k \in categories : categoryDocs[k].isActive}

\* The $lookup pipeline's $match without its status condition.
LookupMatchAny(doc) == TRUE

\* The $lookup pipeline's { $match: { status: 'published' } }.
LookupMatch(doc) == doc.status = "published"

\* $lookup of the posts whose category is the category's _id, through the
\* pipeline [$match, { $count: 'count' }]: $count emits one document, or
\* none when nothing reaches it.
LookupPosts(k) ==
  LET n == Cardinality({p \in DOMAIN posts :
                          posts[p].category = k /\ LookupMatch(posts[p])})
  IN IF n = 0 THEN <<>> ELSE <<[count |-> n]>>

\* $addFields postCount: { $ifNull: [{ $arrayElemAt: ['$posts.count', 0] }, 0] }
PostCountField(joined) == IF joined = <<>> THEN 0 ELSE joined[1].count

\* $sort: { sortOrder: 1, name: 1 }
SortsBefore(a, b) ==
  \/ categoryDocs[a].sortOrder < categoryDocs[b].sortOrder
  \/ /\ categoryDocs[a].sortOrder = categoryDocs[b].sortOrder
     /\ StringLess(categoryDocs[a].name, categoryDocs[b].name)

CategoryOrderings(S) ==
  {s \in [1..Cardinality(S) -> S] :
     /\ \A i, j \in 1..Cardinality(S) : i # j => s[i] # s[j]
     /\ \A i, j \in 1..Cardinality(S) : i < j => ~SortsBefore(s[j], s[i])}

\* Category.withPostCounts(): the aggregation, read in one step.
withPostCounts ==
  /\ \E s \in CategoryOrderings(ActiveCategories) :
       listing' = [op |-> "withPostCounts", state |-> "done", args |-> <<>>,
                   out |-> [i \in 1..Len(s) |->
                              [category |-> s[i],
                               postCount |-> PostCountField(LookupPosts(s[i]))]]]
  /\ UNCHANGED storeVars
  /\ UNCHANGED slugVars
  /\ UNCHANGED sideVars

(***************************************************************************)
(* The HTTP client of the browser.  Local storage holds the entries        *)
(* 'token' and 'user'; a request passes the request interceptor when it is *)
(* sent and the response interceptor when its response arrives; the caller *)
(* then sees its promise resolved or rejected.                             *)
(***************************************************************************)
Tokens == {"t1", "t2"}

\* localStorage.getItem of an entry that is not there.
NoItem == "null"

NoHeader == <<>>

\* The status codes the server answers with; axios resolves 2xx and rejects
\* the rest.
SuccessStatuses == {200, 201}

ErrorStatuses == {400, 401, 403, 404, 422, 429, 500}

NoOutcome == [id |-> 0, login |-> FALSE, status |-> 0, result |-> "none"]

SignedOut ==
  [token |-> NoItem, user |-> NoItem, inflight |-> {}, sent |-> 0,
   last |-> NoOutcome]

\* A request interceptor that sets the header whatever the storage holds.
AuthorizationAlways(token) == <<"Bearer", token>>

\* The request interceptor: Authorization is set if a token is stored.
Authorization(token) == IF token # NoItem THEN <<"Bearer", token>> ELSE NoHeader

\* api.get / api.post / ...: the request leaves through the interceptor.
ClientSend(login) ==
  /\ client.sent < MaxRequests
  /\ client' = [client EXCEPT
       !.sent = @ + 1,
       !.inflight = @ \cup {[id |-> client.sent + 1, login |-> login,
                             auth |-> Authorization(client.token)]}]
  /\ UNCHANGED storeVars
  /\ UNCHANGED <<text, kind, slugOut, listing, categoryDocs>>

Outcome(q, status, result) ==
  [id |-> q.id, login |-> q.login, status |-> status, result |-> result]

\* A 2xx response: the interceptor hands on the body; authService.login then
\* stores the token and the user if the body carries a token.
ClientSuccess(q, status, token, user) ==
  /\ q \in client.inflight
  /\ status \in SuccessStatuses
  /\ client' = [client EXCEPT
       !.inflight = @ \ {q},
       !.last = Outcome(q, status, "resolved"),
       !.token = IF q.login /\ token # NoItem THEN token ELSE @,
       !.user = IF q.login /\ token # NoItem THEN user ELSE @]
  /\ UNCHANGED storeVars
  /\ UNCHANGED <<text, kind, slugOut, listing, categoryDocs>>

\* The 401 case of the response interceptor.
Handle401(c) == [c EXCEPT !.token = NoItem]

\* An error response: the switch on the status, then Promise.reject.
ClientError(q, status) ==
  /\ q \in client.inflight
  /\ status \in ErrorStatuses
  /\ client' = [(IF status = 401 THEN Handle401(client) ELSE client) EXCEPT
       !.inflight = @ \ {q},
       !.last = Outcome(q, status, "rejected")]
  /\ UNCHANGED storeVars
  /\ UNCHANGED <<text, kind, slugOut, listing, categoryDocs>>

\* No response at all: the request was made but nothing came back.
ClientNetworkError(q) ==
  /\ q \in client.inflight
  /\ client' = [client EXCEPT
       !.inflight = @ \ {q},
       !.last = Outcome(q, 0, "rejected")]
  /\ UNCHANGED storeVars
  /\ UNCHANGED <<text, kind, slugOut, listing, categoryDocs>>

\* authService.logout
Logout ==
  /\ client' = [client EXCEPT !.token = NoItem, !.user = NoItem]
  /\ UNCHANGED storeVars
  /\ UNCHANGED <<text, kind, slugOut, listing, categoryDocs>>

\* authService.getCurrentUser
getCurrentUser == client.user

(***************************************************************************)
(* The store as deployed: the categories exist, nothing else does.         *)
(***************************************************************************)
InitStore ==
  /\ posts = <<>>
  /\ categories = CategoryIds
  /\ comments = <<>>
  /\ reqs = [r \in Slots |-> Idle]
  /\ viewIncs = [p \in PostIds |-> 0]
  /\ clock = 0
  /\ nextPost = 1
  /\ nextComment = 1
  /\ started = 0

NoListing == [op |-> "none", state |-> "idle", args |-> <<>>, out |-> <<>>]

SlugIdle == [state |-> "idle", stored |-> <<>>, slug |-> NoSlug]

InitSlugIdle ==
  /\ text = <<>>
  /\ kind = "post"
  /\ slugOut = SlugIdle

InitSide == categoryDocs = SeedCategories /\ client = SignedOut

InitPureIdle == InitSlugIdle /\ listing = NoListing /\ InitSide

Init == InitStore /\ InitPureIdle

\* Posts are written, published, edited, liked and read.
Next ==
  \/ \E r \in Slots, t \in TitleSamples, st \in {"", "published"} :
       CreatePostCheck(r, "u1", CreateBody(t, Plain(200), 1, st), TRUE)
  \/ \E r \in Slots : CreatePostSave(r)
  \/ \E r \in Slots, p \in PostIds,
        b \in {TitleUpdate(TitleB), ContentUpdate(Plain(401)),
               StatusUpdate("published"), StatusUpdate("archived")} :
       UpdatePostFind(r, p, "u1", "user", b, TRUE)
  \/ \E r \in Slots : UpdatePostApply(r)
  \/ \E r \in Slots, p \in PostIds : ToggleLikeFind(r, p, "u2")
  \/ \E r \in Slots : ToggleLikeSave(r)
  \/ \E r \in Slots, p \in PostIds : GetPost(r, p)
  \/ \E p \in PostIds : ViewIncrement(p)
  \/ Tick

Spec == Init /\ [][Next]_vars

(***************************************************************************)
(* The slug pipeline over every string of the alphabet up to MaxTextLen.   *)
(***************************************************************************)
InitSlug ==
  /\ InitStore
  /\ text \in Texts
  /\ kind \in {"post", "category"}
  /\ slugOut = SlugPending
  /\ listing = NoListing
  /\ InitSide

NextSlug == SaveSlug

SpecSlug == InitSlug /\ [][NextSlug]_vars

(***************************************************************************)
(* Pagination over every page, limit and number of matching posts within   *)
(* the bounds, each of page and limit given or left to its default.        *)
(***************************************************************************)
InitPages ==
  /\ InitStore
  /\ InitSlugIdle
  /\ InitSide
  /\ \E op \in ListOps, has \in SUBSET {"page", "limit"},
        page \in 1..MaxPage, limit \in 1..MaxLimit, total \in 0..MaxTotal :
       /\ "page" \notin has => page = DefaultPage
       /\ "limit" \notin has => limit = DefaultLimit
       /\ listing = [op |-> op, state |-> "pending",
                     args |-> [has |-> has, page |-> page, limit |-> limit,
                               total |-> total],
                     out |-> <<>>]

NextPages == Paginate

SpecPages == InitPages /\ [][NextPages]_vars

(***************************************************************************)
(* Likes: one post, written by u1, that both users like and unlike.        *)
(***************************************************************************)
\* A post as createPost stored it at time `now`.
FirstPost(u, k, st, now) ==
  PreSave(NewPost(CreateBody(TitleA, Plain(200), k, st), u), TRUE,
          {"title", "content", "category", "status", "author"}, now)

InitLikes ==
  /\ posts = (1 :> FirstPost("u1", 1, "published", 0))
  /\ categories = CategoryIds
  /\ comments = <<>>
  /\ reqs = [r \in Slots |-> Idle]
  /\ viewIncs = [p \in PostIds |-> 0]
  /\ clock = 0
  /\ nextPost = 2
  /\ nextComment = 1
  /\ started = 0
  /\ InitPureIdle

NextLikes ==
  \/ \E r \in Slots, u \in Users : ToggleLikeFind(r, 1, u)
  \/ \E r \in Slots : ToggleLikeSave(r)

SpecLikes == InitLikes /\ [][NextLikes]_vars

(***************************************************************************)
(* Cascade: two posts, commented on, replied to and deleted.               *)
(***************************************************************************)
InitCascade ==
  /\ posts = (1 :> FirstPost("u1", 1, "published", 0)) @@
             (2 :> FirstPost("u2", 1, "published", 1))
  /\ categories = CategoryIds
  /\ comments = <<>>
  /\ reqs = [r \in Slots |-> Idle]
  /\ viewIncs = [p \in PostIds |-> 0]
  /\ clock = 1
  /\ nextPost = 3
  /\ nextComment = 1
  /\ started = 0
  /\ InitPureIdle

NextCascade ==
  \/ \E p \in {1, 2}, parent \in {NoParent} \cup CommentIds, u \in Users :
       CreateComment(p, parent, u)
  \/ \E r \in Slots, p \in {1, 2}, u \in Users : DeletePostFind(r, p, u, "user")
  \/ \E r \in Slots : DeletePostCascade(r)
  \/ \E r \in Slots : DeletePostRemove(r)

SpecCascade == InitCascade /\ [][NextCascade]_vars

(***************************************************************************)
(* Categories: one draft post in category 1; posts are created, moved,     *)
(* archived, and categories removed.                                       *)
(***************************************************************************)
InitCategory ==
  /\ posts = (1 :> FirstPost("u1", 1, "", 0))
  /\ categories = CategoryIds
  /\ comments = <<>>
  /\ reqs = [r \in Slots |-> Idle]
  /\ viewIncs = [p \in PostIds |-> 0]
  /\ clock = 1
  /\ nextPost = 2
  /\ nextComment = 1
  /\ started = 0
  /\ InitPureIdle

NextCategory ==
  \/ \E r \in Slots, k \in RequestCategories, st \in {"", "archived"} :
       CreatePostCheck(r, "u1", CreateBody(TitleB, Plain(200), k, st), TRUE)
  \/ \E r \in Slots : CreatePostSave(r)
  \/ \E r \in Slots, p \in PostIds,
        b \in {StatusUpdate("published"), StatusUpdate("archived")}
                \cup {CategoryUpdate(k) : k \in RequestCategories} :
       UpdatePostFind(r, p, "u1", "user", b, TRUE)
  \/ \E r \in Slots : UpdatePostCategory(r)
  \/ \E r \in Slots : UpdatePostApply(r)
  \/ \E r \in Slots, c \in CategoryIds : RemoveCategoryCount(r, c)
  \/ \E r \in Slots : RemoveCategoryDelete(r)

SpecCategory == InitCategory /\ [][NextCategory]_vars

(***************************************************************************)
(* Ownership: the posts of u1 and u2 are commented on, and updated and     *)
(* deleted by either user, as a plain user or as an admin.                 *)
(***************************************************************************)
Roles == {"user", "admin"}

NextAuth ==
  \/ \E p \in {1, 2}, u \in Users : CreateComment(p, NoParent, u)
  \/ \E r \in Slots, p \in {1, 2}, u \in Users, role \in Roles :
       UpdatePostFind(r, p, u, role, StatusUpdate("archived"), TRUE)
  \/ \E r \in Slots : UpdatePostApply(r)
  \/ \E r \in Slots, p \in {1, 2}, u \in Users, role \in Roles :
       DeletePostFind(r, p, u, role)
  \/ \E r \in Slots : DeletePostCascade(r)
  \/ \E r \in Slots : DeletePostRemove(r)

SpecAuth == InitCascade /\ [][NextAuth]_vars

(***************************************************************************)
(* Views: one published post of u1 is read, edited by its author and liked *)
(* by u2, while the view increments of the reads are applied or fail.      *)
(***************************************************************************)
NextViews ==
  \/ \E r \in Slots, p \in PostIds : GetPost(r, p)
  \/ \E p \in PostIds : ViewIncrement(p)
  \/ \E p \in PostIds : ViewIncrementFails(p)
  \/ \E r \in Slots, b \in {TitleUpdate(TitleB), StatusUpdate("archived")} :
       UpdatePostFind(r, 1, "u1", "user", b, TRUE)
  \/ \E r \in Slots : UpdatePostApply(r)
  \/ \E r \in Slots : ToggleLikeFind(r, 1, "u2")
  \/ \E r \in Slots : ToggleLikeSave(r)

SpecViews == InitLikes /\ [][NextViews]_vars

(***************************************************************************)
(* Failures: one published post of u1; posts are created and updated with  *)
(* good and bad titles and categories, by the author and by a stranger,    *)
(* for stored and for missing posts, while the post is liked and deleted.  *)
(***************************************************************************)
NextErrors ==
  \/ \E r \in Slots, t \in {TitleB, PaddedTitle}, k \in {1, UnknownCategory},
        valid \in ValidationResults :
       CreatePostCheck(r, "u1", CreateBody(t, Plain(200), k, ""), valid)
  \/ \E r \in Slots : CreatePostSave(r)
  \/ \E r \in Slots, p \in PostIds, u \in Users, valid \in ValidationResults,
        b \in {TitleUpdate(PaddedTitle), CategoryUpdate(UnknownCategory)} :
       UpdatePostFind(r, p, u, "user", b, valid)
  \/ \E r \in Slots : UpdatePostCategory(r)
  \/ \E r \in Slots : UpdatePostApply(r)
  \/ \E r \in Slots : ToggleLikeFind(r, 1, "u2")
  \/ \E r \in Slots : ToggleLikeSave(r)
  \/ \E r \in Slots : DeletePostFind(r, 1, "u1", "user")
  \/ \E r \in Slots : DeletePostCascade(r)
  \/ \E r \in Slots : DeletePostRemove(r)

SpecErrors == InitLikes /\ [][NextErrors]_vars

(***************************************************************************)
(* Edits: one published post of u1 is updated by its author with every     *)
(* choice of fields, while it is read and liked.                           *)
(***************************************************************************)
NextEdits ==
  \/ \E r \in Slots, has \in EditSamples :
       UpdatePostFind(r, 1, "u1", "user", UpdateBody(has), TRUE)
  \/ \E r \in Slots : UpdatePostCategory(r)
  \/ \E r \in Slots : UpdatePostApply(r)
  \/ \E r \in Slots : ToggleLikeFind(r, 1, "u2")
  \/ \E r \in Slots : ToggleLikeSave(r)
  \/ \E r \in Slots : GetPost(r, 1)
  \/ ViewIncrement(1)

SpecEdits == InitLikes /\ [][NextEdits]_vars

(***************************************************************************)
(* Comment lists: post 1 has a comment; further comments and replies are   *)
(* posted on the two posts at different times, rejected, and listed.       *)
(***************************************************************************)
\* Another post as createPost stored it at time `now`.
OtherPost(u, now) ==
  PreSave(NewPost(CreateBody(TitleB, Plain(200), 1, "published"), u), TRUE,
          {"title", "content", "category", "status", "author"}, now)

InitLists ==
  /\ posts = (1 :> FirstPost("u1", 1, "published", 0)) @@ (2 :> OtherPost("u2", 0))
  /\ categories = CategoryIds
  /\ comments = (1 :> NewComment(1, NoParent, "u2", 0))
  /\ reqs = [r \in Slots |-> Idle]
  /\ viewIncs = [p \in PostIds |-> 0]
  /\ clock = 0
  /\ nextPost = 3
  /\ nextComment = 2
  /\ started = 0
  /\ InitPureIdle

\* sortOrder = -1, the default: newest first.
NewestFirst == -1

\* The first page and a later one; a limit that one comment fills and one
\* that two do.
ListPages == {1, 2}

ListLimits == {1, 2}

NextLists ==
  \/ \E p \in {1, 2}, parent \in {NoParent} \cup CommentIds :
       CreateComment(p, parent, "u1")
  \/ \E c \in CommentIds : Moderate(c, FALSE)
  \/ Tick
  \/ \E p \in {1, 2}, page \in ListPages, limit \in ListLimits,
        includeReplies \in BOOLEAN :
       FindByPost(p, page, limit, NewestFirst, includeReplies)
  \/ \E c \in CommentIds : FindReplies(c)

SpecLists == InitLists /\ [][NextLists]_vars

(***************************************************************************)
(* Threads: comments and replies are posted on two posts and removed.      *)
(***************************************************************************)
NextThreads ==
  \/ \E p \in {1, 2}, parent \in {NoParent} \cup CommentIds, u \in Users :
       CreateComment(p, parent, u)
  \/ \E r \in Slots, c \in CommentIds : RemoveCommentCascade(r, c)
  \/ \E r \in Slots : RemoveCommentDelete(r)

SpecThreads == InitCascade /\ [][NextThreads]_vars

(***************************************************************************)
(* Properties.                                                             *)
(***************************************************************************)

\* C1: once a deletePost of post P has answered 200, no stored comment
\* (top-level or reply) references P.
C1_NoCommentOfDeletedPost ==
  \A r \in Slots :
    (reqs[r].op = "deletePost" /\ reqs[r].pc = "done" /\ reqs[r].status = 200)
      => \A c \in DOMAIN comments : comments[c].post # reqs[r].id

\* C2: the removal of a category is rejected with status 400, the category
\* and every post unchanged, exactly when a draft or published post
\* references it; otherwise the hook lets the removal through, and the
\* removal deletes the category and changes no post.
C2_RemoveCategoryGuarded ==
  [][\A r \in Slots, c \in CategoryIds :
       LET active == \E p \in DOMAIN posts :
                       posts[p].category = c /\ posts[p].status \in {"draft", "published"}
       IN /\ RemoveCategoryCount(r, c) =>
               /\ active => /\ reqs'[r].pc = "done"
                            /\ reqs'[r].status = 400
                            /\ posts' = posts
                            /\ categories' = categories
               /\ ~active => reqs'[r].pc = "remove"
          /\ (RemoveCategoryDelete(r) /\ reqs[r].id = c) =>
               /\ reqs'[r].status = 200
               /\ c \notin categories'
               /\ posts' = posts]_vars

\* C2 happens: one removal of a category was rejected while a draft post
\* referenced it, and a later one went through with only an archived post
\* referencing it.
C2_Witness ==
  \E r1, r2 \in Slots, p \in DOMAIN posts :
    /\ reqs[r1].op = "removeCategory" /\ reqs[r1].status = 400
    /\ reqs[r2].op = "removeCategory" /\ reqs[r2].status = 200
    /\ reqs[r1].id = reqs[r2].id
    /\ posts[p].category = reqs[r2].id
    /\ posts[p].status = "archived"
    /\ reqs[r2].id \notin categories

\* C3: no user appears twice in the likes of a post.
C3_OneLikePerUser ==
  \A p \in DOMAIN posts : \A i, j \in 1..Len(posts[p].likes) :
    posts[p].likes[i] = posts[p].likes[j] => i = j

\* C4: on every stored post and for every user, toggling the like twice in
\* a row gives back the user's membership and the like count.
C4_ToggleTwiceRestores ==
  \A p \in DOMAIN posts, u \in Users :
    LET likes == posts[p].likes
        twice == toggleLikeArray(toggleLikeArray(likes, u), u)
    IN /\ isLikedBy(twice, u) = isLikedBy(likes, u)
       /\ likeCount(twice) = likeCount(likes)

\* C5: every stored post that is published has a publication date.
C5_PublishedHasDate ==
  \A p \in DOMAIN posts : posts[p].status = "published" => posts[p].publishedAt # Null

\* C6: a publication date, once set, is never changed by any step while the
\* post is stored.
C6_PublishedAtFrozen ==
  [][\A p \in DOMAIN posts :
       (posts[p].publishedAt # Null /\ p \in DOMAIN posts')
         => posts'[p].publishedAt = posts[p].publishedAt]_vars

\* C6 happens: a post published earlier has since been liked, and an
\* updatePost setting its status to published has been applied to it.
C6_Witness ==
  \E p \in DOMAIN posts, r \in Slots :
    /\ posts[p].publishedAt # Null
    /\ posts[p].publishedAt < clock
    /\ posts[p].likes # <<>>
    /\ reqs[r].op = "updatePost" /\ reqs[r].id = p /\ reqs[r].status = 200
    /\ reqs[r].body = StatusUpdate("published")

\* C7: stored slugs are pairwise different, and a createPost that passed the
\* request validation and the category check is answered 201.
C7_CreateNeverCollides ==
  /\ \A p, q \in DOMAIN posts : posts[p].slug = posts[q].slug => p = q
  /\ \A r \in Slots :
       (reqs[r].op = "createPost" /\ reqs[r].pc = "done" /\ ValidTitle(reqs[r].body.title))
         => \/ reqs[r].status = 201
            \/ reqs[r].msg \in {"Validation failed", "Invalid category selected"}

\* C8: the slug of every stored post is the one derived from its title.
C8_SlugFollowsTitle ==
  \A p \in DOMAIN posts : posts[p].slug.base = SlugBase(posts[p].title)

\* C9: the title- or name-derived part of a stored slug has only characters
\* of [a-z0-9-], no two hyphens in a row, and no hyphen at either end.
C9_SlugWellFormed ==
  slugOut.state = "saved" =>
    LET b == slugOut.slug.base
    IN /\ \A i \in 1..Len(b) : b[i] \in LowerLetters \cup Digits \cup {"-"}
       /\ \A i \in 1..(Len(b) - 1) : ~(b[i] = "-" /\ b[i + 1] = "-")
       /\ b # <<>> => (b[1] # "-" /\ b[Len(b)] # "-")

\* C10: the read time of every stored post is ceil(w / 200), w the number
\* of words of its content.
C10_ReadTimeFollowsContent ==
  \A p \in DOMAIN posts :
    posts[p].readTime = Ceil(posts[p].content.words, wordsPerMinute)

\* C14: getPost for a stored post answers 200 with the post in the step
\* that fires the view increment, and neither the increment being applied
\* nor the increment failing changes any response.
C14_ReadUnaffectedByIncrement ==
  [][/\ \A r \in Slots, p \in DOMAIN posts :
          GetPost(r, p) =>
            /\ reqs'[r].pc = "done"
            /\ reqs'[r].status = 200
            /\ reqs'[r].data = <<p>>
     /\ \A p \in PostIds :
          (ViewIncrement(p) \/ ViewIncrementFails(p)) => reqs' = reqs]_vars

\* The only request so far read post 1 and was answered 200; its increment
\* is no longer pending and the post still has no views: it failed.
C14_Witness ==
  /\ started = 1
  /\ \E r \in Slots :
       reqs[r].op = "getPost" /\ reqs[r].id = 1 /\ reqs[r].status = 200
  /\ viewIncs[1] = 0
  /\ posts[1].views = 0

\* C19: what findByPost returns for a post holds at most `limit` comments,
\* each once, and each a stored, approved comment of that post; with
\* includeReplies false none of them is a reply.  With includeReplies true
\* replies are returned as well: a first page that is not full holds every
\* approved comment of the post, whatever its parent, and with
\* includeReplies false every approved top-level comment of the post.
C19_FindByPostFilters ==
  [][(/\ listing'.op = "findByPost"
      /\ FindByPost(listing'.args.post, listing'.args.page, listing'.args.limit,
                    listing'.args.order, listing'.args.includeReplies)) =>
       LET a == listing'.args
           out == listing'.out
           got == {out[i] : i \in 1..Len(out)}
       IN /\ Len(out) <= a.limit
          /\ Cardinality(got) = Len(out)
          /\ \A c \in got :
               /\ c \in DOMAIN comments
               /\ comments[c].post = a.post
               /\ comments[c].isApproved
               /\ ~a.includeReplies => comments[c].parent = NoParent
          /\ (a.page = 1 /\ Len(out) < a.limit) =>
               \A c \in DOMAIN comments :
                 (/\ comments[c].post = a.post
                  /\ comments[c].isApproved
                  /\ a.includeReplies \/ comments[c].parent = NoParent)
                 => c \in got]_vars

\* Post 1 has an approved comment and an approved reply to it: listed with
\* replies, both are returned; comment 1 alone is what the list returns
\* here without them.
C19_Witness ==
  /\ listing.op = "findByPost" /\ listing.args.post = 1
  /\ listing.args.includeReplies /\ listing.args.limit = 2 /\ listing.args.page = 1
  /\ Len(listing.out) = 2
  /\ DOMAIN comments = {1, 2}
  /\ comments[2].parent = 1 /\ comments[1].isApproved /\ comments[2].isApproved
  /\ ByPostQuery(1, FALSE) = {1}

\* C20: findReplies(c) returns exactly the stored approved comments whose
\* parentComment is c, each once, the older before the newer.
C20_FindRepliesExactOldestFirst ==
  [][(listing'.op = "findReplies" /\ FindReplies(listing'.args.comment)) =>
       LET c == listing'.args.comment
           out == listing'.out
           got == {out[i] : i \in 1..Len(out)}
       IN /\ Cardinality(got) = Len(out)
          /\ got = {d \in DOMAIN comments :
                      comments[d].parent = c /\ comments[d].isApproved}
          /\ \A i, j \in 1..Len(out) :
               comments[out[i]].createdAt < comments[out[j]].createdAt => i < j]_vars

\* Comment 1 has an older and a newer approved reply, and findReplies
\* returned the older one first.
C20_Witness ==
  /\ listing.op = "findReplies" /\ listing.args.comment = 1
  /\ listing.out = <<2, 3>>
  /\ DOMAIN comments = {1, 2, 3}
  /\ comments[2].createdAt < comments[3].createdAt

\* C18: the write of updatePost changes no field of the post that the
\* request body does not give - title, content, excerpt, category, status
\* and allowComments each keep their stored value when absent - and it never
\* changes the post's author, likes or views.
C18_UpdateTouchesGivenFieldsOnly ==
  [][\A r \in Slots :
       (UpdatePostApply(r) /\ reqs[r].id \in DOMAIN posts) =>
         LET p == reqs[r].id
             has == reqs[r].body.has
         IN /\ p \in DOMAIN posts'
            /\ \A f \in BodyFields \ has : posts'[p][f] = posts[p][f]
            /\ posts'[p].author = posts[p].author
            /\ posts'[p].likes = posts[p].likes
            /\ posts'[p].views = posts[p].views
            /\ \A q \in DOMAIN posts \ {p} :
                 q \in DOMAIN posts' /\ posts'[q] = posts[q]]_vars

\* An update that gave the title and allowComments only has been applied
\* to the post after it was read once and liked by u2: the two fields are
\* new, the others, the like and the view are as they were.
C18_Witness ==
  \E r \in Slots :
    /\ reqs[r].op = "updatePost" /\ reqs[r].status = 200
    /\ reqs[r].body.has = {"title", "allowComments"}
    /\ posts[1].title = trim(TitleB) /\ ~posts[1].allowComments
    /\ posts[1].content = Plain(200) /\ posts[1].status = "published"
    /\ posts[1].category = 1 /\ posts[1].excerpt = AutoExcerpt(Plain(200))
    /\ posts[1].author = "u1" /\ posts[1].likes = <<"u2">> /\ posts[1].views = 1

\* C17: a post controller request that fails for an invalid category, a
\* validation failure, a missing post or a missing authorization is answered
\* with that kind's own response - 400 'Invalid category selected', 400
\* 'Validation failed', 404, 403 - and never with the generic 500: not when
\* the request validators reject it, not when the schema's validators
\* reject what is being stored, not when the post is missing at the write.
C17_FailuresKeepTheirKind ==
  [][\A r \in Slots :
       /\ \A p \in PostIds, u \in Users, valid \in ValidationResults,
             b \in {TitleUpdate(PaddedTitle), CategoryUpdate(UnknownCategory)} :
            UpdatePostFind(r, p, u, "user", b, valid) =>
              IF ~valid
              THEN reqs'[r].status = 400 /\ reqs'[r].msg = "Validation failed"
              ELSE IF p \notin DOMAIN posts
              THEN reqs'[r].status = 404 /\ reqs'[r].msg = "Post not found"
              ELSE IF posts[p].author # u
              THEN reqs'[r].status = 403
              ELSE reqs'[r].pc # "done"
       /\ (UpdatePostCategory(r) /\ reqs[r].body.category \notin categories) =>
            reqs'[r].status = 400 /\ reqs'[r].msg = "Invalid category selected"
       /\ (UpdatePostApply(r) /\ ~ValidTitle(reqs[r].body.title)
             /\ "title" \in reqs[r].body.has) =>
            reqs'[r].status # 500
       /\ (CreatePostSave(r) /\ ~ValidTitle(reqs[r].body.title)) =>
            reqs'[r].status # 500
       /\ (ToggleLikeSave(r) /\ reqs[r].id \notin DOMAIN posts) =>
            reqs'[r].status # 500]_vars

\* C16: createPost with a category id under which no category is stored is
\* answered 400 'Invalid category selected' and stores nothing; so is
\* updatePost when its category lookup finds no category, and it changes
\* nothing.  updatePost looks the category up exactly when the body's
\* category differs from the post's current one.
C16_InvalidCategoryRejected ==
  [][\A r \in Slots, k \in RequestCategories :
       /\ (k \notin categories
             /\ \E st \in {"", "archived"} :
                  CreatePostCheck(r, "u1", CreateBody(TitleB, Plain(200), k, st), TRUE))
            => /\ reqs'[r].pc = "done"
               /\ reqs'[r].status = 400
               /\ reqs'[r].msg = "Invalid category selected"
               /\ posts' = posts /\ categories' = categories /\ comments' = comments
       /\ (UpdatePostCategory(r) /\ reqs[r].body.category = k /\ k \notin categories)
            => /\ reqs'[r].pc = "done"
               /\ reqs'[r].status = 400
               /\ reqs'[r].msg = "Invalid category selected"
               /\ posts' = posts /\ categories' = categories /\ comments' = comments
       /\ \A p \in DOMAIN posts :
            UpdatePostFind(r, p, "u1", "user", CategoryUpdate(k), TRUE)
            => /\ reqs'[r].pc = (IF k # posts[p].category THEN "category" ELSE "apply")
               /\ posts' = posts]_vars

\* An updatePost and a createPost naming the unknown category were both
\* answered 400 'Invalid category selected', and the store is as it was.
C16_Witness ==
  \E r1, r2 \in Slots :
    /\ reqs[r1].op = "updatePost" /\ reqs[r1].msg = "Invalid category selected"
    /\ reqs[r1].body.category = UnknownCategory
    /\ reqs[r2].op = "createPost" /\ reqs[r2].msg = "Invalid category selected"
    /\ reqs[r2].body.category = UnknownCategory
    /\ posts = (1 :> FirstPost("u1", 1, "", 0))

\* C15: views never decreases: a view increment that is applied adds
\* exactly 1 to the views of its post, and no other step - of getPost,
\* updatePost or toggleLike, in any interleaving - changes the views of a
\* stored post.
C15_ViewsCountAppliedIncrements ==
  [][\A p \in DOMAIN posts :
       /\ p \in DOMAIN posts'
       /\ posts'[p].views =
            posts[p].views + (IF ViewIncrement(p) THEN 1 ELSE 0)]_vars

\* Two reads of post 1 have had their increments applied while u2 liked the
\* post: 2 views.
C15_Witness ==
  /\ posts[1].views = 2
  /\ viewIncs[1] = 0
  /\ posts[1].likes = <<"u2">>

\* C13: for page >= 1, limit >= 1 and T matching posts, the pagination of
\* getAllPosts and searchPosts has totalPosts = T, totalPages the least
\* number of pages of `limit` posts that hold T posts (ceil(T / limit)),
\* hasNextPage exactly when page < totalPages and hasPrevPage exactly when
\* page > 1.
C13_PaginationMetadata ==
  (listing.op \in ListOps /\ listing.state = "done") =>
    LET a == listing.args
        m == listing.out
    IN /\ m.totalPosts = a.total
       /\ m.totalPages * a.limit >= a.total
       /\ m.totalPages >= 0
       /\ m.totalPages > 0 => (m.totalPages - 1) * a.limit < a.total
       /\ m.hasNextPage <=> a.page < m.totalPages
       /\ m.hasPrevPage <=> a.page > 1

\* Page 2 of 25 posts, 10 a page: 3 pages, a next page and a previous page.
C13_Witness ==
  /\ listing.op = "getAllPosts" /\ listing.state = "done"
  /\ listing.args.has = {"page", "limit"}
  /\ listing.args.page = 2 /\ listing.args.limit = 10 /\ listing.args.total = 25
  /\ listing.out.totalPages = 3 /\ listing.out.totalPosts = 25
  /\ listing.out.hasNextPage /\ listing.out.hasPrevPage

C11_OnlyAuthorOrAdmin ==
  [][\A r \in Slots, p \in DOMAIN posts, u \in Users, role \in Roles :
       (UpdatePostFind(r, p, u, role, StatusUpdate("archived"), TRUE)
          \/ DeletePostFind(r, p, u, role))
       => IF posts[p].author # u /\ role # "admin"
          THEN /\ reqs'[r].status = 403
               /\ reqs'[r].pc = "done"
               /\ posts' = posts
               /\ comments' = comments
          ELSE reqs'[r].status # 403]_vars

\* A stranger was refused, and an admin who is not the author has updated
\* a post that has a comment.
C11_Witness ==
  \E r1, r2 \in Slots :
    /\ reqs[r1].status = 403
    /\ reqs[r2].op = "updatePost" /\ reqs[r2].status = 200 /\ reqs[r2].role = "admin"
    /\ reqs[r2].id \in DOMAIN posts
    /\ posts[reqs[r2].id].author # reqs[r2].user
    /\ \E c \in DOMAIN comments : comments[c].post = reqs[r1].id

(***************************************************************************)
(* Categories of every activity and sort order, with posts of every status *)
(* written and edited under them, and the counts read in between.          *)
(***************************************************************************)
SortOrders == {0, 1}

InitCounts ==
  /\ InitStore
  /\ InitSlugIdle
  /\ listing = NoListing
  /\ client = SignedOut
  /\ \E active \in [CategoryIds -> BOOLEAN], order \in [CategoryIds -> SortOrders] :
       categoryDocs = [k \in CategoryIds |->
                         CategoryDoc(SeedName(k), active[k], order[k])]

NextCounts ==
  \/ \E t \in TitleSamples, k \in CategoryIds, st \in {"", "published"} :
       CreatePostCheck(1, "u1", CreateBody(t, Plain(200), k, st), TRUE)
  \/ CreatePostSave(1)
  \/ \E p \in PostIds,
        b \in {StatusUpdate("published"), StatusUpdate("archived"), CategoryUpdate(2)} :
       UpdatePostFind(1, p, "u1", "user", b, TRUE)
  \/ UpdatePostCategory(1)
  \/ UpdatePostApply(1)
  \/ withPostCounts

SpecCounts == InitCounts /\ [][NextCounts]_vars

\* C21: whenever withPostCounts is read, it returns exactly the stored
\* active categories, each once, each with postCount equal to the number of
\* stored posts of that category whose status is published (0 when there is
\* none; drafts and archived posts are not counted), ordered by sortOrder
\* and, among equal sortOrders, by name.
C21_WithPostCounts ==
  [][withPostCounts =>
       LET out == listing'.out
           n == Len(out)
       IN /\ {out[i].category : i \in 1..n} =
               {k \in categories : categoryDocs[k].isActive}
          /\ n = Cardinality({k \in categories : categoryDocs[k].isActive})
          /\ \A i \in 1..n :
               out[i].postCount =
                 Cardinality({p \in DOMAIN posts :
                                /\ posts[p].category = out[i].category
                                /\ posts[p].status = "published"})
          /\ \A i, j \in 1..n :
               i < j =>
                 LET a == categoryDocs[out[i].category]
                     b == categoryDocs[out[j].category]
                 IN \/ a.sortOrder < b.sortOrder
                    \/ /\ a.sortOrder = b.sortOrder
                       /\ ~StringLess(b.name, a.name)]_vars

\* A read that returned one category with one published post, while the
\* same category also holds a post that is not published and the other
\* category is inactive.
C21_Witness ==
  /\ listing.op = "withPostCounts"
  /\ Len(listing.out) = 1
  /\ listing.out[1].postCount = 1
  /\ \E p \in DOMAIN posts :
       /\ posts[p].category = listing.out[1].category
       /\ posts[p].status # "published"
  /\ \E p \in DOMAIN posts :
       /\ posts[p].category = listing.out[1].category
       /\ posts[p].status = "published"
  /\ \E k \in categories : ~categoryDocs[k].isActive

(***************************************************************************)
(* Comments are posted, edited, liked, reported and moderated, by requests *)
(* that overlap.                                                           *)
(***************************************************************************)
NextComments ==
  \/ CreateComment(1, NoParent, "u1")
  \/ \E r \in Slots, c \in {1, 2} :
       \/ CommentFind(r, "report", c, "u1", NoBody)
       \/ CommentFind(r, "toggleLikeComment", c, "u2", NoBody)
       \/ \E b \in {ContentUpdate(Plain(1)), ContentUpdate(Plain(2))} :
            CommentFind(r, "editComment", c, "u1", b)
  \/ \E r \in Slots : CommentSave(r)
  \/ Moderate(1, FALSE)
  \/ Tick

SpecComments == InitLists /\ [][NextComments]_vars

\* C22: a comment is created with isEdited false and editedAt null; isEdited
\* is true exactly when editedAt is set; isEdited becomes true only in a
\* step that changes the stored content, every step that changes the stored
\* content leaves isEdited true and editedAt set, a completed report or
\* toggleLike save and an approval or rejection leave both as they were,
\* and isEdited never goes back to false.
C22_EditTracking ==
  [][\A c \in DOMAIN comments' :
       IF c \notin DOMAIN comments
       THEN ~comments'[c].isEdited /\ comments'[c].editedAt = Null
       ELSE LET old == comments[c]
                new == comments'[c]
            IN /\ old.isEdited => new.isEdited
               /\ new.isEdited <=> new.editedAt # Null
               /\ (new.isEdited /\ ~old.isEdited) => new.content # old.content
               /\ new.content # old.content => new.isEdited /\ new.editedAt # Null
               /\ (\/ new.isApproved # old.isApproved
                   \/ \E r \in Slots :
                        /\ reqs[r].op \in {"report", "toggleLikeComment"}
                        /\ reqs[r].id = c
                        /\ reqs[r].pc = "save"
                        /\ reqs'[r].pc = "done")
                  => new.isEdited = old.isEdited /\ new.editedAt = old.editedAt]_vars

\* A comment that was edited, then reported and rejected, and is still
\* marked as edited.
C22_Witness ==
  \E c \in DOMAIN comments :
    /\ comments[c].isEdited
    /\ comments[c].editedAt # Null
    /\ comments[c].content # Plain(1)
    /\ comments[c].reportCount > 0
    /\ ~comments[c].isApproved

\* C23: every report() that completes raises the stored reportCount of its
\* comment by exactly 1 and leaves isReported true, and a comment is marked
\* reported exactly when its reportCount is positive.
C23_ReportCounts ==
  [][/\ \A r \in Slots :
          (/\ reqs[r].op = "report"
           /\ reqs[r].pc = "save"
           /\ reqs'[r].pc = "done"
           /\ reqs'[r].status = 200)
          => /\ comments'[reqs[r].id].reportCount =
                  comments[reqs[r].id].reportCount + 1
             /\ comments'[reqs[r].id].isReported
     /\ \A c \in DOMAIN comments' :
          comments'[c].isReported <=> comments'[c].reportCount > 0]_vars

(***************************************************************************)
(* Both users like and unlike the same post and the same comment, by       *)
(* requests that overlap.                                                  *)
(***************************************************************************)
NextToggles ==
  \/ \E r \in Slots, u \in Users : ToggleLikeFind(r, 1, u)
  \/ \E r \in Slots : ToggleLikeSave(r)
  \/ \E r \in Slots, u \in Users : CommentFind(r, "toggleLikeComment", 1, u, NoBody)
  \/ \E r \in Slots : CommentSave(r)

SpecToggles == InitLists /\ [][NextToggles]_vars

\* C26: in every step, a user's membership in the likes of a stored post or
\* comment changes only if a toggleLike of that same user on that document
\* completes in the step: a toggle by u, whenever its save lands, leaves
\* the membership of every other user as the store had it.
C26_ToggleTouchesOwnLikeOnly ==
  [][/\ \A p \in DOMAIN posts \cap DOMAIN posts', v \in Users :
          isLikedBy(posts'[p].likes, v) # isLikedBy(posts[p].likes, v)
          => \E r \in Slots :
               /\ reqs[r].op = "toggleLike"
               /\ reqs[r].id = p
               /\ reqs[r].user = v
               /\ reqs[r].pc = "save"
               /\ reqs'[r].status = 200
     /\ \A c \in DOMAIN comments \cap DOMAIN comments', v \in Users :
          isLikedBy(comments'[c].likes, v) # isLikedBy(comments[c].likes, v)
          => \E r \in Slots :
               /\ reqs[r].op = "toggleLikeComment"
               /\ reqs[r].id = c
               /\ reqs[r].user = v
               /\ reqs[r].pc = "save"
               /\ reqs'[r].status = 200]_vars

\* u2 likes the comment while an unlike by u1, who had liked it, is between
\* its load and its save: u2's like is stored and u1's save was refused.
C26_Witness ==
  /\ 1 \in DOMAIN comments
  /\ isLikedBy(comments[1].likes, "u1")
  /\ isLikedBy(comments[1].likes, "u2")
  /\ \E r \in Slots :
       /\ reqs[r].op = "toggleLikeComment"
       /\ reqs[r].user = "u1"
       /\ reqs[r].pc = "done"
       /\ reqs[r].status = 500

(***************************************************************************)
(* Categories are saved into an empty collection, under names that differ  *)
(* in case, punctuation and spacing.                                       *)
(***************************************************************************)
NameSamples ==
  {<<"a", "a">>, <<"a", "&", "a">>, <<"a", " ", "a">>, <<"a", " ", " ", "a">>,
   <<"a", "-", "a">>, <<"a", "B">>, <<" ", "a", "B", " ">>, <<"B", "7">>, <<"a">>}

InitNames ==
  /\ posts = <<>>
  /\ categories = {}
  /\ comments = <<>>
  /\ reqs = [r \in Slots |-> Idle]
  /\ viewIncs = [p \in PostIds |-> 0]
  /\ clock = 0
  /\ nextPost = 1
  /\ nextComment = 1
  /\ started = 0
  /\ InitPureIdle

NextNames == \E n \in NameSamples, o \in SortOrders : SaveCategory(n, o)

SpecNames == InitNames /\ [][NextNames]_vars

\* C24: saving a category whose name is valid and differs from the name of
\* every stored category succeeds, and stored categories with distinct
\* names have distinct slugs.
C24_UniqueNameSaves ==
  [][\A n \in NameSamples, o \in SortOrders :
       (/\ SaveCategory(n, o)
        /\ ValidName(n)
        /\ \A j \in categories : categoryDocs[j].name # trim(n))
       => /\ listing'.state = "saved"
          /\ \A i, j \in categories' :
               categoryDocs'[i].name # categoryDocs'[j].name
               => categoryDocs'[i].slug # categoryDocs'[j].slug]_vars

(***************************************************************************)
(* The browser: requests and logins are sent, answered with every status   *)
(* or not at all, in any order, and the user logs out.                     *)
(***************************************************************************)
NextClient ==
  \/ \E login \in BOOLEAN : ClientSend(login)
  \/ \E q \in client.inflight, status \in SuccessStatuses,
        token \in Tokens \cup {NoItem}, user \in Users :
       ClientSuccess(q, status, token, user)
  \/ \E q \in client.inflight, status \in ErrorStatuses : ClientError(q, status)
  \/ \E q \in client.inflight : ClientNetworkError(q)
  \/ Logout

SpecClient == Init /\ [][NextClient]_vars

\* C25: a request that is sent carries the header 'Bearer <token>' of the
\* token stored at that moment, and no Authorization header when none is
\* stored; when a 401 response has been handled no token is stored; a token
\* comes to be stored only by a login that succeeded; and every response
\* with an error status, like every request without a response, reaches
\* the caller as a rejection.
C25_BearerWhileTokenStored ==
  [][/\ \A q \in client'.inflight \ client.inflight :
          IF client.token = NoItem
          THEN q.auth = NoHeader
          ELSE q.auth = <<"Bearer", client.token>>
     /\ (client'.last # client.last /\ client'.last.status = 401)
          => client'.token = NoItem
     /\ (client'.token # NoItem /\ client'.token # client.token)
          => /\ client'.last # client.last
             /\ client'.last.login
             /\ client'.last.result = "resolved"
     /\ (client'.last # client.last /\ client'.last.status \notin SuccessStatuses)
          => client'.last.result = "rejected"]_vars

\* A login stored a token, a later request was answered 401 and rejected,
\* and the request sent after that went out without the header.
C25_Witness ==
  /\ client.token = NoItem
  /\ client.user # NoItem
  /\ client.last.status = 401
  /\ client.last.result = "rejected"
  /\ \E q \in client.inflight : q.auth = NoHeader /\ q.id > client.last.id

\* C30: local storage holds 'token' and 'user' together or neither, so
\* getCurrentUser returns a user only while a token is stored.
C30_TokenAndUserTogether ==
  /\ (client.token = NoItem) <=> (client.user = NoItem)
  /\ getCurrentUser # NoItem => client.token # NoItem

\* C27: every stored post references a stored category.
C27_PostsReferenceStoredCategory ==
  \A p \in DOMAIN posts : posts[p].category \in categories

\* C28: every stored comment that has a parent references a stored comment.
C28_RepliesReferenceStoredParent ==
  \A c \in DOMAIN comments :
    comments[c].parent # NoParent => comments[c].parent \in DOMAIN comments

\* C29: whenever updatePost answers 200, the post exists at the moment the
\* update is applied, the data of the answer is that post, and the post is
\* stored afterwards; a post that is not stored when the update is applied
\* is not stored after it either.
C29_UpdateSucceedsOnStoredPostOnly ==
  [][\A r \in Slots :
       (/\ reqs[r].op = "updatePost"
        /\ reqs[r].pc # "done"
        /\ reqs'[r].pc = "done")
       => /\ reqs'[r].status = 200
               => /\ reqs[r].id \in DOMAIN posts
                  /\ reqs[r].id \in DOMAIN posts'
                  /\ reqs'[r].data = <<reqs[r].id>>
          /\ reqs[r].id \notin DOMAIN posts => reqs[r].id \notin DOMAIN posts']_vars

====
